---- MODULE Spec2Model ----
(***************************************************************************)
(* BarMate (src/BarM.py): the rebar calculation functions and the          *)
(* Streamlit session that keeps the bar bending schedule.                  *)
(*                                                                         *)
(* Units.  The program holds cut lengths, stock lengths and wastage as     *)
(* Python floats in metres, every one of them a multiple of 0.001 m        *)
(* (round(x, 3), or a catalog literal).  The model holds the same numbers  *)
(* as integers in millimetres: the integer v stands for the double that    *)
(* is nearest to v/1000.  The one place where the double differs           *)
(* observably from the decimal, the floor division of line 142, is         *)
(* modelled by FloatAbove.                                                 *)
(***************************************************************************)
EXTENDS Integers, Sequences, FiniteSets, TLC

VARIABLES
    schedule_df_list,   \* st.session_state.schedule_df_list: the rows, in order
    show_clear_dialog,  \* st.session_state.show_clear_dialog
    last_run,           \* what the last script run was triggered by and what it displayed
    calc                \* the last direct application of a calculation function

vars == <<schedule_df_list, show_clear_dialog, last_run, calc>>

(***************************************************************************)
(* Bounds of the model.                                                    *)
(***************************************************************************)
MaxSchedule == 3     \* rows the schedule may hold
MaxQty      == 8     \* num_cuts_needed of a direct application
MaxCutDm    == 13    \* direct applications take cut lengths up to MaxCutDm * 1000 mm
MaxBends    == 3     \* number_90_bends of a direct application
MaxSpacing  == 3     \* spacings of a direct application, in units of 100 mm

(***************************************************************************)
(* Helpers                                                                 *)
(***************************************************************************)
RECURSIVE SumSeq(_)
SumSeq(s) == IF s = <<>> THEN 0 ELSE Head(s) + SumSeq(Tail(s))

\* math.ceil(a / b) for b > 0 (\div is the floor division)
CeilDiv(a, b) == -((-a) \div b)

Max2(a, b) == IF a >= b THEN a ELSE b

(***************************************************************************)
(* Cutlength, lines 201-204                                                *)
(***************************************************************************)
\* a slip: the deduction taken as twice the diameter, whatever the diameter
Bend_deductions_get_TwiceDiameter(diameter) == 2 * diameter

Bend_deductions_get(diameter) ==
    CASE diameter = 10 -> 20
      [] diameter = 12 -> 24
      [] diameter = 16 -> 32
      [] diameter = 18 -> 36
      [] diameter = 20 -> 40
      [] diameter = 25 -> 50
      [] diameter = 32 -> 64
      [] OTHER -> 0

Cutlength(lengths, diameter, number_90_bends) ==
    LET sum_lengths == SumSeq(lengths)
    IN  sum_lengths - (Bend_deductions_get(diameter) * number_90_bends)

(***************************************************************************)
(* numof, lines 134-137                                                    *)
(***************************************************************************)
\* a slip: the quotient rounded down instead of up
numof_RoundedDown(length, spacing, cover) ==
    IF spacing <= 0 THEN 0
    ELSE LET calculated_units == ((length - cover) \div spacing) - 2
         IN  Max2(0, calculated_units)

numof(length, spacing, cover) ==
    IF spacing <= 0 THEN 0
    ELSE LET calculated_units == CeilDiv(length - cover, spacing) - 2
         IN  Max2(0, calculated_units)

(***************************************************************************)
(* The double behind a length of mm millimetres.  With 2^e <= mm/1000 <    *)
(* 2^(e+1) the double is mm/1000 rounded to a multiple of 2^(e-52), so it  *)
(* lies above mm/1000 exactly when (mm * 2^(52-e)) mod 1000 > 500.         *)
(***************************************************************************)
RECURSIVE Pow2Mod1000(_)
Pow2Mod1000(k) == IF k = 0 THEN 1 ELSE (2 * Pow2Mod1000(k - 1)) % 1000

RECURSIVE ExpUp(_, _)
\* for mm >= 1000: the e >= 0 with 1000 * 2^e <= mm < 1000 * 2^(e+1); p = 1000 * 2^e
ExpUp(mm, p) == IF mm < 2 * p THEN 0 ELSE 1 + ExpUp(mm, 2 * p)

RECURSIVE ExpDown(_)
\* for 1 <= mm: the least j >= 0 with mm * 2^j >= 1000
ExpDown(mm) == IF mm >= 1000 THEN 0 ELSE 1 + ExpDown(2 * mm)

FloatAbove(mm) ==
    LET e == IF mm >= 1000 THEN ExpUp(mm, 1000) ELSE -ExpDown(mm)
        r == (mm * Pow2Mod1000(52 - e)) % 1000
    IN  r > 500

(***************************************************************************)
(* bars_and_offcuts, lines 139-153.  bar_size is a catalog length, which   *)
(* is a double exactly; bar_size // cut_length is the floor of the exact   *)
(* quotient of the two doubles, so it is one less than the decimal         *)
(* quotient when cut_length divides bar_size and its double lies above it  *)
(* (6.0 // 0.1 is 59.0).                                                   *)
(***************************************************************************)
FloorDivFloat(bar_size, cut_length) ==
    IF bar_size % cut_length = 0 /\ FloatAbove(cut_length)
    THEN (bar_size \div cut_length) - 1
    ELSE bar_size \div cut_length

\* a slip: the bar that is only partly used is not counted
bars_and_offcuts_NoLastBar(cut_length, bar_size, num_cuts_needed) ==
    IF cut_length <= 0 THEN [Error |-> "Cut length must be positive."]
    ELSE IF cut_length > bar_size
    THEN [Error |-> "Cut length is greater than stock bar size."]
    ELSE LET cuts_per_bar == FloorDivFloat(bar_size, cut_length)
         IN  IF cuts_per_bar = 0
             THEN [Error |-> "Cannot get any cuts from the selected bar size."]
             ELSE LET num_full_bars  == num_cuts_needed \div cuts_per_bar
                      offcut_from_full_bar == bar_size - (cuts_per_bar * cut_length)
                      offcuts == [i \in 1..num_full_bars |-> offcut_from_full_bar]
                  IN  [bars_used |-> num_full_bars, offcuts |-> offcuts,
                       total_wastage |-> SumSeq(offcuts)]

bars_and_offcuts(cut_length, bar_size, num_cuts_needed) ==
    IF cut_length <= 0 THEN [Error |-> "Cut length must be positive."]
    ELSE IF cut_length > bar_size
    THEN [Error |-> "Cut length is greater than stock bar size."]
    ELSE LET cuts_per_bar == FloorDivFloat(bar_size, cut_length)
         IN  IF cuts_per_bar = 0
             THEN [Error |-> "Cannot get any cuts from the selected bar size."]
             ELSE LET num_full_bars  == num_cuts_needed \div cuts_per_bar
                      remaining_cuts == num_cuts_needed % cuts_per_bar
                      offcut_from_full_bar == bar_size - (cuts_per_bar * cut_length)
                      full == [i \in 1..num_full_bars |-> offcut_from_full_bar]
                      offcut_from_last_bar == bar_size - (remaining_cuts * cut_length)
                      offcuts == IF remaining_cuts > 0
                                 THEN Append(full, offcut_from_last_bar)
                                 ELSE full
                      bars_used == IF remaining_cuts > 0
                                   THEN num_full_bars + 1
                                   ELSE num_full_bars
                  IN  [bars_used |-> bars_used, offcuts |-> offcuts,
                       total_wastage |-> SumSeq(offcuts)]

(***************************************************************************)
(* optimal_bar_size, lines 155-166                                         *)
(***************************************************************************)
standard_bar_sizes == <<6000, 7500, 9000, 12000>>

MaxStandard == standard_bar_sizes[Len(standard_bar_sizes)]

\* a slip: the comparison of line 164 turned around
BelowBest_Reversed(total_wastage, best_option) ==
    IF "optimal_size" \in DOMAIN best_option
    THEN total_wastage > best_option.wastage
    ELSE TRUE

\* a slip: an equal total wastage also replaces the current best
BelowBest_OrEqual(total_wastage, best_option) ==
    IF "optimal_size" \in DOMAIN best_option
    THEN total_wastage <= best_option.wastage
    ELSE TRUE

\* best_option starts as {'wastage': float('inf')}: it has no optimal_size, and
\* every total_wastage is below its wastage.
BelowBest(total_wastage, best_option) ==
    IF "optimal_size" \in DOMAIN best_option
    THEN total_wastage < best_option.wastage
    ELSE TRUE

RECURSIVE ScanSizes(_, _, _, _)
\* the for loop of lines 161-165, from the i-th catalog entry on
ScanSizes(i, best_option, cut_length, num_cuts_needed) ==
    IF i > Len(standard_bar_sizes) THEN best_option
    ELSE LET bar    == standard_bar_sizes[i]
             result == bars_and_offcuts(cut_length, bar, num_cuts_needed)
         IN  IF bar < cut_length
             THEN ScanSizes(i + 1, best_option, cut_length, num_cuts_needed)
             ELSE IF "Error" \notin DOMAIN result
                     /\ BelowBest(result.total_wastage, best_option)
             THEN ScanSizes(i + 1,
                            [optimal_size |-> bar, bars_required |-> result.bars_used,
                             wastage |-> result.total_wastage],
                            cut_length, num_cuts_needed)
             ELSE ScanSizes(i + 1, best_option, cut_length, num_cuts_needed)

\* A result with the field raised stands for the exception that leaves the function.
optimal_bar_size(cut_length, num_cuts_needed) ==
    IF cut_length > MaxStandard
    THEN LET result == bars_and_offcuts(cut_length, 12000, num_cuts_needed)
         IN  IF "bars_used" \in DOMAIN result
             THEN [optimal_size |-> 12000, bars_required |-> result.bars_used,
                   wastage |-> result.total_wastage]
             ELSE [raised |-> "KeyError"]
    ELSE ScanSizes(1, [wastage |-> "inf"], cut_length, num_cuts_needed)

(***************************************************************************)
(* Direct applications of the calculation functions (the calls of lines    *)
(* 289, 324, 182/194 and 175/297).  calc keeps the function, its           *)
(* arguments and what it returned.                                         *)
(***************************************************************************)
LengthsChoices ==
    {<<200, 1000, 200>>, <<250, 1500, 250>>, <<20>>, <<48>>, <<7000>>, <<13000>>}

\* the diameters of the deduction table, and one that is not in it
DiameterChoices == {8, 10, 12, 16, 18, 20, 25, 32}

\* cut lengths in mm: non-positive ones, every multiple of 50 mm up to the
\* bound, and some that divide no catalog length
CutChoices ==
    {-100, 1, 1352, 3452, 6952, 11999}
        \cup {50 * k : k \in 0..(20 * MaxCutDm)}

ZoneLengthChoices == {0, 50, 75, 100, 250, 1000, 5000}
SpacingChoices    == {-100, 1, 150} \cup {100 * k : k \in 0..MaxSpacing}
CoverChoices      == {0, 75}

CatalogSet == {standard_bar_sizes[i] : i \in 1..Len(standard_bar_sizes)}

NoCalc == [tool |-> "none"]

\* the arguments a direct application can be given
CalcInputs ==
    {[tool |-> "Cutlength",
      args |-> [lengths |-> l, diameter |-> d, number_90_bends |-> b]] :
        l \in LengthsChoices, d \in DiameterChoices, b \in 0..MaxBends}
    \cup
    {[tool |-> "numof", args |-> [length |-> l, spacing |-> s, cover |-> c]] :
        l \in ZoneLengthChoices, s \in SpacingChoices, c \in CoverChoices}
    \cup
    {[tool |-> "bars_and_offcuts",
      args |-> [cut_length |-> c, bar_size |-> s, num_cuts_needed |-> q]] :
        c \in CutChoices, s \in CatalogSet, q \in 1..MaxQty}
    \cup
    {[tool |-> "optimal_bar_size",
      args |-> [cut_length |-> c, num_cuts_needed |-> q]] :
        c \in CutChoices, q \in 1..MaxQty}

Pending(tool) == calc.tool = tool /\ "result" \notin DOMAIN calc

Returned(tool) == calc.tool = tool /\ "result" \in DOMAIN calc

WithResult(r) == [tool |-> calc.tool, args |-> calc.args, result |-> r]

EvalCutlength ==
    /\ Pending("Cutlength")
    /\ calc' = WithResult(Cutlength(calc.args.lengths, calc.args.diameter,
                                    calc.args.number_90_bends))
    /\ UNCHANGED <<schedule_df_list, show_clear_dialog, last_run>>

EvalNumof ==
    /\ Pending("numof")
    /\ calc' = WithResult(numof(calc.args.length, calc.args.spacing, calc.args.cover))
    /\ UNCHANGED <<schedule_df_list, show_clear_dialog, last_run>>

EvalBarsAndOffcuts ==
    /\ Pending("bars_and_offcuts")
    /\ calc' = WithResult(bars_and_offcuts(calc.args.cut_length, calc.args.bar_size,
                                           calc.args.num_cuts_needed))
    /\ UNCHANGED <<schedule_df_list, show_clear_dialog, last_run>>

EvalOptimalBarSize ==
    /\ Pending("optimal_bar_size")
    /\ calc' = WithResult(optimal_bar_size(calc.args.cut_length,
                                           calc.args.num_cuts_needed))
    /\ UNCHANGED <<schedule_df_list, show_clear_dialog, last_run>>

NoRun == [trigger |-> "start", messages |-> <<>>]

InitCalc ==
    /\ schedule_df_list = <<>>
    /\ show_clear_dialog = FALSE
    /\ last_run = NoRun
    /\ calc \in CalcInputs

NextCalc ==
    \/ EvalCutlength
    \/ EvalNumof
    \/ EvalBarsAndOffcuts
    \/ EvalOptimalBarSize

SpecCalc == InitCalc /\ [][NextCalc]_vars

(***************************************************************************)
(* bm, lines 168-188.  The row of the one-row DataFrame is a record; its   *)
(* columns "Cut Length (m)", "Stock Length (m)" and "Wastage (m)" are in   *)
(* millimetres.  ret tells what leaves the function: a DataFrame, None, or *)
(* the exception raised inside optimal_bar_size.                           *)
(***************************************************************************)
\* float(Preferred_Length.replace('m', '')), line 181
ParsePreferred(Preferred_Length) ==
    CASE Preferred_Length = "6m"   -> 6000
      [] Preferred_Length = "7.5m" -> 7500
      [] Preferred_Length = "9m"   -> 9000
      [] Preferred_Length = "12m"  -> 12000

RECURSIVE JoinInts(_)
JoinInts(l) ==
    IF l = <<>> THEN ""
    ELSE IF Len(l) = 1 THEN ToString(Head(l))
    ELSE ToString(Head(l)) \o ", " \o JoinInts(Tail(l))

\* str(Lengths), line 187
StrOfList(l) == "[" \o JoinInts(l) \o "]"

\* a slip: Pref_L and Preferred_Length_used in each other's column
My_Bar_SwappedColumns(Barmark, Lengths, Type, Diameter, Location, CutL_m, Unit_number, Pref_L, Preferred_Length_used, wastage) ==
    [Barmark |-> Barmark, Grade |-> Type \o ToString(Diameter),
     Location |-> Location, Cut_Length_m |-> CutL_m,
     Number_of_Units |-> Unit_number, Stock_Length_m |-> Preferred_Length_used,
     Num_Stock_Bars |-> Pref_L, Wastage_m |-> wastage,
     Lengths_mm |-> StrOfList(Lengths)]

\* the row of line 187
My_Bar(Barmark, Lengths, Type, Diameter, Location, CutL_m, Unit_number, Pref_L, Preferred_Length_used, wastage) ==
    [Barmark |-> Barmark, Grade |-> Type \o ToString(Diameter),
     Location |-> Location, Cut_Length_m |-> CutL_m,
     Number_of_Units |-> Unit_number, Stock_Length_m |-> Pref_L,
     Num_Stock_Bars |-> Preferred_Length_used, Wastage_m |-> wastage,
     Lengths_mm |-> StrOfList(Lengths)]

\* a slip: Unit_number < 0 where line 171 has Unit_number <= 0
UnitsRejected_OnlyNegative(Unit_number) == Unit_number < 0

\* the test of line 171
UnitsRejected(Unit_number) == Unit_number <= 0

bm(Barmark, Lengths, Type, Diameter, bends_90, Unit_number, Location, Preferred_Length) ==
    LET CutL_mm == Cutlength(Lengths, Diameter, bends_90)
        CutL_m  == CutL_mm    \* round(CutL_mm / 1000, 3), in millimetres
    IN  IF UnitsRejected(Unit_number)
        THEN [ret |-> "None", messages |-> <<"warning_units">>]
        ELSE IF Preferred_Length = "Optimal"
        THEN LET optimal_result == optimal_bar_size(CutL_m, Unit_number)
             IN  IF "raised" \in DOMAIN optimal_result
                 THEN [ret |-> optimal_result.raised, messages |-> <<>>]
                 ELSE IF "optimal_size" \notin DOMAIN optimal_result
                 THEN [ret |-> "None", messages |-> <<"error_no_optimal">>]
                 ELSE [ret |-> "DataFrame", messages |-> <<>>,
                       row |-> My_Bar(Barmark, Lengths, Type, Diameter, Location,
                                      CutL_m, Unit_number,
                                      optimal_result.optimal_size,
                                      optimal_result.bars_required,
                                      optimal_result.wastage)]
        ELSE LET Pref_L   == ParsePreferred(Preferred_Length)
                 bar_info == bars_and_offcuts(CutL_m, Pref_L, Unit_number)
             IN  IF "Error" \in DOMAIN bar_info
                 THEN [ret |-> "None", messages |-> <<"error_bar_info">>]
                 ELSE [ret |-> "DataFrame", messages |-> <<>>,
                       row |-> My_Bar(Barmark, Lengths, Type, Diameter, Location,
                                      CutL_m, Unit_number, Pref_L,
                                      bar_info.bars_used, bar_info.total_wastage)]

(***************************************************************************)
(* recalculate_with_fixed_length, lines 190-199.  The three columns that   *)
(* are assigned hold a number or the text 'N/A'; a cell is [number |-> n]  *)
(* or [text |-> "N/A"].                                                    *)
(***************************************************************************)
NumberCell(n) == [number |-> n]
TextCell(t)   == [text |-> t]

\* a slip: a row that cannot be cut from the fixed length gets zeros
RecalculatedRow_Zero(row, fixed_length) ==
    LET result == bars_and_offcuts(row.Cut_Length_m, fixed_length, row.Number_of_Units)
    IN  IF "Error" \notin DOMAIN result
        THEN [row EXCEPT !.Stock_Length_m = NumberCell(fixed_length),
                         !.Num_Stock_Bars = NumberCell(result.bars_used),
                         !.Wastage_m = NumberCell(result.total_wastage)]
        ELSE [row EXCEPT !.Stock_Length_m = NumberCell(fixed_length),
                         !.Num_Stock_Bars = NumberCell(0),
                         !.Wastage_m = NumberCell(0)]

\* the body of the loop, lines 193-198
RecalculatedRow(row, fixed_length) ==
    LET cut_length == row.Cut_Length_m
        num_units  == row.Number_of_Units
        result     == bars_and_offcuts(cut_length, fixed_length, num_units)
    IN  IF "Error" \notin DOMAIN result
        THEN [row EXCEPT !.Stock_Length_m = NumberCell(fixed_length),
                         !.Num_Stock_Bars = NumberCell(result.bars_used),
                         !.Wastage_m = NumberCell(result.total_wastage)]
        ELSE [row EXCEPT !.Stock_Length_m = NumberCell(fixed_length),
                         !.Num_Stock_Bars = TextCell("N/A"),
                         !.Wastage_m = TextCell("N/A")]

recalculate_with_fixed_length(df, fixed_length) ==
    [index \in 1..Len(df) |-> RecalculatedRow(df[index], fixed_length)]

\* pd.to_numeric(column, errors='coerce').sum(), line 266: text becomes NaN,
\* and sum() skips NaN
RECURSIVE SumCoerced(_)
SumCoerced(cells) ==
    IF cells = <<>> THEN 0
    ELSE (IF "number" \in DOMAIN Head(cells) THEN Head(cells).number ELSE 0)
         + SumCoerced(Tail(cells))

Column(df, name) == [index \in 1..Len(df) |-> df[index][name]]

(***************************************************************************)
(* The session: main, lines 359-388, and bbs_generator, lines 207-274.     *)
(* last_run.messages lists the st.warning / st.info / st.error /           *)
(* st.success / st.toast calls of the run, by kind; last_run.form is what  *)
(* the form was submitted with, last_run.selected_barmark the value of the *)
(* delete_selectbox widget.                                                *)
(***************************************************************************)
\* pd.concat(st.session_state.schedule_df_list, ignore_index=True), lines 243, 376
full_schedule_df == schedule_df_list

\* The script reaches bbs_generator (line 387) unless the dialog block fails:
\* pd.concat of an empty list raises at line 376.
PageRendered == ~(show_clear_dialog /\ schedule_df_list = <<>>)

\* the text fields of the form and what int(l.strip()) makes of them, line 234
IntTokens == {<<"200", 200>>, <<"1000", 1000>>, <<"48", 48>>, <<"7000", 7000>>,
              <<"13000", 13000>>}

IsIntToken(tok) == \E e \in IntTokens : e[1] = tok

IntOf(tok) == (CHOOSE e \in IntTokens : e[1] = tok)[2]

ParsesAsInts(fields) == \A i \in 1..Len(fields) : IsIntToken(fields[i])

ParseInts(fields) == [i \in 1..Len(fields) |-> IntOf(fields[i])]

\* The lengths field: 1352 mm, 6952 mm and 12952 mm after two bends of a 12 mm
\* bar, a cut length of 0, and a field that int() rejects
LengthsStrChoices ==
    {<<"200", "1000", "200">>, <<"7000">>, <<"13000">>, <<"48">>, <<"12a">>}

\* <<total_length_m * 1000, spacing_mm, cover_mm>>: the zone lengths 0.25 m and
\* 1.0 m are doubles exactly, and so are their products with 1000
ZoneChoices == {<<250, 200, 75>>, <<1000, 250, 75>>}

FormWith(barmark, lengths_str, preferred_length, unit_number_direct, zone) ==
    [barmark |-> barmark, location |-> "Footing 1", type_rebar |-> "HD",
     diameter |-> 12, lengths_str |-> lengths_str, bends_90 |-> 2,
     preferred_length |-> preferred_length,
     unit_number_direct |-> unit_number_direct, zone |-> zone]

\* what the form can be submitted with: a number of units given directly, with
\* every lengths field and stock preference, or one calculated from the zone
FormInputs ==
    {FormWith(b, l, p, 2, <<1000, 250, 75>>) :
        b \in {"BM01", "BM02"}, l \in LengthsStrChoices,
        p \in {"Optimal", "6m", "7.5m"}}
    \cup
    {FormWith(b, <<"200", "1000", "200">>, "Optimal", 0, z) :
        b \in {"BM01", "BM02"}, z \in ZoneChoices}

Barmarks(list) == {list[i].Barmark : i \in 1..Len(list)}

UnitNumber(in) ==
    IF in.unit_number_direct > 0 THEN in.unit_number_direct
    ELSE numof(in.zone[1], in.zone[2], in.zone[3])

\* the call of line 234
new_bar_df(in) ==
    bm(in.barmark, ParseInts(in.lengths_str), in.type_rebar, in.diameter,
       in.bends_90, UnitNumber(in), in.location, in.preferred_length)

\* "Add Bar to Schedule", lines 228-238
AddBar(in) ==
    /\ PageRendered
    /\ LET duplicate == IF schedule_df_list # <<>>
                           /\ in.barmark \in Barmarks(schedule_df_list)
                        THEN <<"warning_duplicate">> ELSE <<>>
           info      == IF in.unit_number_direct <= 0
                        THEN <<"info_calculated_units">> ELSE <<>>
           new_bar   == new_bar_df(in)
       IN  IF ~ParsesAsInts(in.lengths_str)
           THEN /\ last_run' = [trigger |-> "add", form |-> in,
                                messages |-> duplicate \o info \o <<"error_lengths">>]
                /\ UNCHANGED schedule_df_list
           ELSE IF new_bar.ret = "DataFrame"
           THEN /\ Len(schedule_df_list) < MaxSchedule
                /\ schedule_df_list' = Append(schedule_df_list, new_bar.row)
                /\ last_run' = [trigger |-> "add", form |-> in,
                                messages |-> duplicate \o info \o <<"success_added">>]
           ELSE IF new_bar.ret = "None"
           THEN /\ last_run' = [trigger |-> "add", form |-> in,
                                messages |-> duplicate \o info \o new_bar.messages]
                /\ UNCHANGED schedule_df_list
           ELSE \* the exception is not caught by line 238: the run ends with it
                /\ last_run' = [trigger |-> "add", form |-> in,
                                messages |-> duplicate \o info \o <<new_bar.ret>>]
                /\ UNCHANGED schedule_df_list
    /\ UNCHANGED <<show_clear_dialog, calc>>

\* a slip: the last matching entry instead of the first
index_to_remove_Last(list, selected_barmark) ==
    IF \E i \in 1..Len(list) : list[i].Barmark = selected_barmark
    THEN (CHOOSE i \in 1..Len(list) :
            /\ list[i].Barmark = selected_barmark
            /\ \A j \in (i + 1)..Len(list) : list[j].Barmark # selected_barmark) - 1
    ELSE -1

\* next((i for i, df_item in enumerate(list) if ... == selected_barmark), -1),
\* line 256: the position counts from 0
index_to_remove(list, selected_barmark) ==
    IF \E i \in 1..Len(list) : list[i].Barmark = selected_barmark
    THEN (CHOOSE i \in 1..Len(list) :
            /\ list[i].Barmark = selected_barmark
            /\ \A j \in 1..(i - 1) : list[j].Barmark # selected_barmark) - 1
    ELSE -1

\* list.pop(index), line 258
Pop(list, index) ==
    SubSeq(list, 1, index) \o SubSeq(list, index + 2, Len(list))

\* "Confirm Deletion", lines 253-260.  The options are the labels of the
\* schedule, and the button is disabled while nothing (or '') is selected.
\* st.rerun() starts the script again, so the success message is not shown.
DeleteEntry(selected_barmark) ==
    /\ PageRendered
    /\ schedule_df_list # <<>>
    /\ selected_barmark \in Barmarks(full_schedule_df)
    /\ selected_barmark # ""
    /\ LET index == index_to_remove(schedule_df_list, selected_barmark)
       IN  IF index # -1
           THEN schedule_df_list' = Pop(schedule_df_list, index)
           ELSE UNCHANGED schedule_df_list
    /\ last_run' = [trigger |-> "delete", selected_barmark |-> selected_barmark,
                    messages |-> <<>>]
    /\ UNCHANGED <<show_clear_dialog, calc>>

\* "Clear Current Schedule", lines 369-371
RequestClear ==
    /\ IF schedule_df_list # <<>>
       THEN /\ show_clear_dialog' = TRUE
            /\ last_run' = [trigger |-> "request_clear", messages |-> <<>>]
       ELSE /\ UNCHANGED show_clear_dialog
            /\ last_run' = [trigger |-> "request_clear",
                            messages |-> <<"toast_already_empty">>]
    /\ UNCHANGED <<schedule_df_list, calc>>

\* clear_state, lines 378-379, the on_click of both buttons of the dialog
\* (lines 381-382); the buttons exist when the dialog block got to them
ConfirmClear ==
    /\ show_clear_dialog
    /\ schedule_df_list # <<>>
    /\ schedule_df_list' = <<>>
    /\ show_clear_dialog' = FALSE
    /\ last_run' = [trigger |-> "confirm_clear", messages |-> <<>>]
    /\ UNCHANGED calc

\* "Compare with 6m-Only Stock", lines 263-274
Compare ==
    /\ PageRendered
    /\ schedule_df_list # <<>>
    /\ LET df_6m_scenario == recalculate_with_fixed_length(full_schedule_df, 6000)
           total_wastage_optimal == SumSeq(Column(full_schedule_df, "Wastage_m"))
           total_wastage_6m == SumCoerced(Column(df_6m_scenario, "Wastage_m"))
           extra_wastage == total_wastage_6m - total_wastage_optimal
       IN  last_run' = [trigger |-> "compare", messages |-> <<>>,
                        df_6m_scenario |-> df_6m_scenario,
                        total_wastage_optimal |-> total_wastage_optimal,
                        total_wastage_6m |-> total_wastage_6m,
                        extra_wastage |-> extra_wastage]
    /\ UNCHANGED <<schedule_df_list, show_clear_dialog, calc>>

Init ==
    /\ schedule_df_list = <<>>
    /\ show_clear_dialog = FALSE
    /\ last_run = NoRun
    /\ calc = NoCalc

Next ==
    \/ \E in \in FormInputs : AddBar(in)
    \/ \E selected_barmark \in Barmarks(schedule_df_list) : DeleteEntry(selected_barmark)
    \/ RequestClear
    \/ ConfirmClear
    \/ Compare

Spec == Init /\ [][Next]_vars

(***************************************************************************)
(* Properties of the session, under Spec                                   *)
(***************************************************************************)
Added(messages) == \E i \in 1..Len(messages) : messages[i] = "success_added"

\* C4: after any sequence of add, delete and clear operations every record of
\* the schedule has cut length > 0, stock length >= cut length, bars used *
\* stock length >= cut length * unit count, and total wastage >= 0.
C4_RecordInvariants ==
    \A i \in 1..Len(schedule_df_list) :
        LET r == schedule_df_list[i]
        IN  /\ r.Cut_Length_m > 0
            /\ r.Stock_Length_m >= r.Cut_Length_m
            /\ r.Num_Stock_Bars * r.Stock_Length_m
                 >= r.Cut_Length_m * r.Number_of_Units
            /\ r.Wastage_m >= 0

\* after adds and a deletion: a record with a fixed stock preference that is
\* not the optimal one, and a record the optimizer chose the stock of
C4_Witness ==
    /\ last_run.trigger = "delete"
    /\ Len(schedule_df_list) = 2
    /\ \E i, j \in 1..Len(schedule_df_list) :
         /\ schedule_df_list[i].Cut_Length_m = 1352
         /\ schedule_df_list[i].Stock_Length_m = 7500
         /\ schedule_df_list[j].Cut_Length_m = 6952

\* the cases in which the claim says no record is built, from the form alone
RejectedForm(form) ==
    LET units == IF form.unit_number_direct > 0 THEN form.unit_number_direct
                 ELSE numof(form.zone[1], form.zone[2], form.zone[3])
        cut   == Cutlength(ParseInts(form.lengths_str), form.diameter, form.bends_90)
    IN  \/ units <= 0
        \/ cut <= 0
        \/ form.preferred_length = "Optimal" /\ \A s \in CatalogSet : cut > s
        \/ form.preferred_length # "Optimal"
             /\ cut > ParsePreferred(form.preferred_length)

\* C5: bm produces no record whenever the unit count is <= 0 or the stock
\* allocation reports an error (non-positive cut length, cut length greater
\* than the chosen stock length, no feasible stock), and the add-bar-mark
\* action then leaves the schedule exactly as it was.
C5_NoRecordOnRejection ==
    [][(last_run'.trigger = "add"
          /\ ParsesAsInts(last_run'.form.lengths_str)
          /\ RejectedForm(last_run'.form))
        => /\ new_bar_df(last_run'.form).ret # "DataFrame"
           /\ ~Added(last_run'.messages)
           /\ schedule_df_list' = schedule_df_list]_vars

\* a cut length greater than the chosen stock length, submitted to a schedule
\* that holds two records
C5_Witness ==
    /\ last_run.trigger = "add"
    /\ ParsesAsInts(last_run.form.lengths_str)
    /\ RejectedForm(last_run.form)
    /\ last_run.form.unit_number_direct > 0
    /\ last_run.form.preferred_length = "6m"
    /\ Len(schedule_df_list) = 2

\* C6: deleting by label removes exactly one record, the first one in schedule
\* order whose label is the selected one; every other record stays and the
\* order of the remaining records is unchanged; with no record of that label
\* the schedule is unchanged.
C6_DeleteFirstMatch ==
    [][last_run'.trigger = "delete" =>
        LET old   == schedule_df_list
            new   == schedule_df_list'
            label == last_run'.selected_barmark
        IN  IF \E k \in 1..Len(old) : old[k].Barmark = label
            THEN \E k \in 1..Len(old) :
                    /\ old[k].Barmark = label
                    /\ \A j \in 1..(k - 1) : old[j].Barmark # label
                    /\ Len(new) = Len(old) - 1
                    /\ \A j \in 1..(k - 1) : new[j] = old[j]
                    /\ \A j \in k..Len(new) : new[j] = old[j + 1]
            ELSE new = old]_vars

\* two records are left, the second with the deleted label: the first record of
\* that label went and a later one stayed
C6_Witness ==
    /\ last_run.trigger = "delete"
    /\ Len(schedule_df_list) = 2
    /\ schedule_df_list[1].Barmark # last_run.selected_barmark
    /\ schedule_df_list[2].Barmark = last_run.selected_barmark

\* what the claim says of one record of the fixed-length scenario
ScenarioRowAsClaimed(old, new, fixed_length) ==
    /\ new.Barmark = old.Barmark
    /\ new.Grade = old.Grade
    /\ new.Location = old.Location
    /\ new.Cut_Length_m = old.Cut_Length_m
    /\ new.Number_of_Units = old.Number_of_Units
    /\ new.Lengths_mm = old.Lengths_mm
    /\ IF old.Cut_Length_m > fixed_length
       THEN /\ new.Num_Stock_Bars = TextCell("N/A")
            /\ new.Wastage_m = TextCell("N/A")
       ELSE LET a == bars_and_offcuts(old.Cut_Length_m, fixed_length,
                                      old.Number_of_Units)
            IN  /\ "Error" \notin DOMAIN a
                /\ new.Num_Stock_Bars = NumberCell(a.bars_used)
                /\ new.Wastage_m = NumberCell(a.total_wastage)

\* C7: recalculate_with_fixed_length processes every record of the schedule: a
\* record whose cut length exceeds the fixed length gets the marker 'N/A' for
\* bars used and wastage, every other record the allocation of
\* bars_and_offcuts(cut length, fixed length, units); label, grade, location,
\* cut length, units and raw lengths are unchanged, and the schedule that was
\* passed in is not modified.  The comparison uses the fixed length 6 m; the
\* function is checked on the schedule for every catalog length as well.
C7_ScenarioPerRecord ==
    [][last_run'.trigger = "compare" =>
        /\ schedule_df_list' = schedule_df_list
        /\ Len(last_run'.df_6m_scenario) = Len(schedule_df_list)
        /\ \A i \in 1..Len(schedule_df_list) :
             ScenarioRowAsClaimed(schedule_df_list[i],
                                  last_run'.df_6m_scenario[i], 6000)
        /\ \A fixed_length \in CatalogSet :
             LET scenario == recalculate_with_fixed_length(schedule_df_list,
                                                           fixed_length)
             IN  /\ Len(scenario) = Len(schedule_df_list)
                 /\ \A i \in 1..Len(schedule_df_list) :
                      ScenarioRowAsClaimed(schedule_df_list[i], scenario[i],
                                           fixed_length)]_vars

\* a scenario with a record that cannot be cut from 6 m and, after it, one that can
C7_Witness ==
    /\ last_run.trigger = "compare"
    /\ \E i, j \in 1..Len(last_run.df_6m_scenario) :
         /\ i < j
         /\ last_run.df_6m_scenario[i].Wastage_m = TextCell("N/A")
         /\ "number" \in DOMAIN last_run.df_6m_scenario[j].Wastage_m
         /\ schedule_df_list[j].Stock_Length_m # 6000

\* every record holds the stock length and wastage optimal_bar_size chooses for it
HoldsOptimalChoices(df) ==
    \A i \in 1..Len(df) :
        LET best == optimal_bar_size(df[i].Cut_Length_m, df[i].Number_of_Units)
        IN  /\ "optimal_size" \in DOMAIN best
            /\ df[i].Stock_Length_m = best.optimal_size
            /\ df[i].Wastage_m = best.wastage

\* C8: for a schedule of optimal choices of which 6 m is not everywhere the
\* choice, the totals of the comparison give totalWastage(original) -
\* totalWastage(fixed scenario) <= 0, also when records cannot be cut from the
\* fixed length.
C8_NeverWorseThanFixed ==
    (/\ last_run.trigger = "compare"
     /\ HoldsOptimalChoices(schedule_df_list)
     /\ \E i \in 1..Len(schedule_df_list) :
          schedule_df_list[i].Stock_Length_m # 6000)
    => last_run.total_wastage_optimal - last_run.total_wastage_6m <= 0

\* C12: in every state that add-bar-mark, delete-by-label, request-clear and
\* confirm-clear can reach in any order, the schedule is non-empty whenever
\* show_clear_dialog is set, so that the pd.concat of the dialog (line 376) is
\* never given an empty schedule; and confirm-clear leaves the schedule empty
\* and the flag unset.
C12_DialogOnlyWithRecords ==
    /\ show_clear_dialog => schedule_df_list # <<>>
    /\ PageRendered
    /\ last_run.trigger = "confirm_clear" =>
            (schedule_df_list = <<>> /\ ~show_clear_dialog)

(***************************************************************************)
(* Properties of the calculation functions, under SpecCalc                 *)
(***************************************************************************)

\* C1: for every cut length c with 0 < c <= stock length s and every quantity
\* q >= 1, bars_and_offcuts returns no error and bars_used * s >= c * q.
C1_MaterialSufficiency ==
    Returned("bars_and_offcuts") =>
        LET c == calc.args.cut_length
            s == calc.args.bar_size
            q == calc.args.num_cuts_needed
        IN  (0 < c /\ c <= s /\ q >= 1) =>
                /\ "Error" \notin DOMAIN calc.result
                /\ calc.result.bars_used * s >= c * q

\* 5 cuts of 2.8 m from 6 m bars: two full bars and one with a single cut
C1_Witness ==
    /\ Returned("bars_and_offcuts")
    /\ calc.args = [cut_length |-> 2800, bar_size |-> 6000, num_cuts_needed |-> 5]
    /\ "Error" \notin DOMAIN calc.result
    /\ calc.result.bars_used = 3

\* C2: for every cut length c > 0 and quantity q >= 1 the wastage that
\* optimal_bar_size returns is at most the total wastage of
\* bars_and_offcuts(c, s, q) for every catalog length s >= c.
C2_Optimality ==
    Returned("optimal_bar_size") =>
        LET c == calc.args.cut_length
            q == calc.args.num_cuts_needed
        IN  (c > 0 /\ q >= 1) =>
                \A s \in {t \in CatalogSet : t >= c} :
                    /\ "optimal_size" \in DOMAIN calc.result
                    /\ "Error" \notin DOMAIN bars_and_offcuts(c, s, q)
                    /\ calc.result.wastage <= bars_and_offcuts(c, s, q).total_wastage

\* a cut that fits the 6 m bar, and the 7.5 m bar wastes less
C2_Witness ==
    /\ Returned("optimal_bar_size")
    /\ calc.args.cut_length > 0
    /\ calc.args.cut_length <= 6000
    /\ "optimal_size" \in DOMAIN calc.result
    /\ calc.result.optimal_size = 7500
    /\ calc.result.wastage
         < bars_and_offcuts(calc.args.cut_length, 6000,
                            calc.args.num_cuts_needed).total_wastage

\* C3: when the cut length is greater than every catalog length,
\* optimal_bar_size does not fail: it returns 12.0 m as the chosen stock
\* length together with the allocation that bars_and_offcuts yields for 12.0 m.
C3_FallbackToLongest ==
    (Returned("optimal_bar_size") /\ calc.args.cut_length > 12000) =>
        /\ "raised" \notin DOMAIN calc.result
        /\ "optimal_size" \in DOMAIN calc.result
        /\ calc.result.optimal_size = 12000

\* the claim's bend profiles and its deduction table
BendProfiles == [n45 : 0..1, n90 : 0..MaxBends, n135 : 0..1, n180 : 0..1]

\* twice equivalentBends90 = 0.5*n45 + 1.0*n90 + 1.5*n135 + 2.0*n180
EquivalentBends90Doubled(p) == p.n45 + 2 * p.n90 + 3 * p.n135 + 4 * p.n180

ClaimedBendDeduction(d) ==
    LET table == {<<10, 20>>, <<12, 24>>, <<16, 32>>, <<18, 36>>, <<20, 40>>,
                  <<25, 50>>, <<32, 64>>}
    IN  IF \E e \in table : e[1] = d
        THEN (CHOOSE e \in table : e[1] = d)[2]
        ELSE 0

\* what the claim's formula gives for profile p, doubled
ClaimedCutLengthDoubled(lengths, d, p) ==
    2 * SumSeq(lengths) - EquivalentBends90Doubled(p) * ClaimedBendDeduction(d)

\* C9 as stated: Cutlength returns sum(rawLengths) - equivalentBends90(profile)
\* * bendDeduction(diameter) for a bend profile of 45, 90, 135 and 180 degree
\* bends, of which the function is given the number of 90 degree bends.
C9_AnyBendProfile ==
    Returned("Cutlength") =>
        \A p \in BendProfiles :
            p.n90 = calc.args.number_90_bends =>
                2 * calc.result
                    = ClaimedCutLengthDoubled(calc.args.lengths, calc.args.diameter, p)

\* C9 amended: Cutlength takes only a number of 90 degree bends and returns
\* sum(lengths) - number_90_bends * bendDeduction(diameter), with the claim's
\* table and 0 for any other diameter; [200,1000,200], diameter 12, two bends
\* give 1352.
C9_OnlyRightAngleBends ==
    Returned("Cutlength") =>
        /\ \A p \in BendProfiles :
             (p.n90 = calc.args.number_90_bends
                /\ p.n45 = 0 /\ p.n135 = 0 /\ p.n180 = 0) =>
                 2 * calc.result
                    = ClaimedCutLengthDoubled(calc.args.lengths, calc.args.diameter, p)
        /\ (calc.args = [lengths |-> <<200, 1000, 200>>, diameter |-> 12,
                         number_90_bends |-> 2]) => calc.result = 1352

C9_Witness ==
    /\ Returned("Cutlength")
    /\ calc.args = [lengths |-> <<200, 1000, 200>>, diameter |-> 12,
                    number_90_bends |-> 2]
    /\ calc.result = 1352

\* C10 as stated: numof signals an error when spacing <= 0, an outcome that
\* is no bar count; for spacing > 0 it returns
\* max(0, ceil((length - cover) / spacing) - 2), an integer >= 0.
C10_ErrorOnBadSpacing ==
    Returned("numof") =>
        LET n == calc.result
            x == calc.args.length - calc.args.cover
            s == calc.args.spacing
        IN  IF s <= 0
            THEN n \notin Nat
            ELSE /\ n \in Nat
                 /\ (n + 2) * s >= x
                 /\ (n = 0 \/ (n + 1) * s < x)

\* C10 amended: numof returns 0 when spacing <= 0, the same value as a count
\* of no bars; for spacing > 0 it returns the least n >= 0 with
\* (n + 2) * spacing >= length - cover, which is
\* max(0, ceil((length - cover) / spacing) - 2).
C10_ZeroOnBadSpacing ==
    Returned("numof") =>
        LET n == calc.result
            x == calc.args.length - calc.args.cover
            s == calc.args.spacing
        IN  IF s <= 0
            THEN n = 0
            ELSE /\ n \in Nat
                 /\ (n + 2) * s >= x
                 /\ (n = 0 \/ (n + 1) * s < x)

C10_Witness ==
    /\ Returned("numof")
    /\ calc.args.spacing <= 0
    /\ calc.args.length - calc.args.cover > 0
    /\ calc.result = 0

\* the catalog lengths that the cut fits and whose allocation wastes w in total
StocksWasting(c, q, w) ==
    {s \in CatalogSet :
        /\ s >= c
        /\ "Error" \notin DOMAIN bars_and_offcuts(c, s, q)
        /\ bars_and_offcuts(c, s, q).total_wastage = w}

\* C11: optimal_bar_size takes the catalog in ascending order and replaces its
\* best only on a strictly smaller total wastage: when two or more catalog
\* lengths that the cut fits give the same, minimal, total wastage, the stock
\* length returned is the shortest of them, with the bars that length needs.
C11_TieGoesToShortest ==
    (/\ Returned("optimal_bar_size")
     /\ calc.args.cut_length > 0
     /\ calc.args.cut_length <= MaxStandard) =>
        LET c == calc.args.cut_length
            q == calc.args.num_cuts_needed
        IN  /\ "optimal_size" \in DOMAIN calc.result
            /\ calc.result.optimal_size \in StocksWasting(c, q, calc.result.wastage)
            /\ \A s \in StocksWasting(c, q, calc.result.wastage) :
                    calc.result.optimal_size <= s
            /\ calc.result.bars_required
                    = bars_and_offcuts(c, calc.result.optimal_size, q).bars_used

\* a tie between the shortest and the longest bar (8 cuts of 1.15 m waste
\* 2.8 m on two 6 m bars and on one 12 m bar), and the 6 m bar is returned
C11_Witness ==
    /\ Returned("optimal_bar_size")
    /\ calc.args.cut_length > 0
    /\ "optimal_size" \in DOMAIN calc.result
    /\ calc.result.optimal_size = 6000
    /\ Cardinality(StocksWasting(calc.args.cut_length, calc.args.num_cuts_needed,
                                 calc.result.wastage)) >= 2
    /\ 12000 \in StocksWasting(calc.args.cut_length, calc.args.num_cuts_needed,
                                calc.result.wastage)

====
